---- MODULE Spec2Model ----
(***************************************************************************)
(* A model of the quote and tracking logic of the CrossMind frontend:      *)
(*   - AvailNexusClient.getBridgeQuote / getRouteRecommendation            *)
(*     (frontend/lib/avail-nexus-sdk.ts),                                  *)
(*   - the TransactionStatus component's tracking effect and rendering,    *)
(*   - pollBridgeStatus (frontend/lib/bridge-service.ts),                  *)
(*   - the price and balance lookups (price-fetcher.ts, token-balance.ts,  *)
(*     all-balances.ts) and the chain tables of BlockscoutSDK.tsx,         *)
(*   - AvailNexusClient.executeBridge / getBridgeStatus, AvailNexusBridge, *)
(*   - the NexusFlowExample and ChatInterface components.                  *)
(* Each component has its own variables and its own specification; a       *)
(* specification leaves the other components' variables untouched.          *)
(***************************************************************************)
EXTENDS Integers, Sequences, FiniteSets, TLC

VARIABLES
    \* AvailNexusClient.getBridgeQuote: one call at a time
    qPc,        \* "ready" | "awaiting" (POST /quotes in flight) | "returned" | "thrown"
                \* ("executing", "checking": the request of executeBridge, getBridgeStatus)
    qReq,       \* the arguments of the current call
    qQuote,     \* the BridgeQuote the call returned, or NoQuote
    qError,     \* the Error the call threw, or NoError
    qSent,      \* the body the call posted to /quotes, or NoRequest
    \* AvailNexusClient.getRouteRecommendation
    rReq,       \* the arguments of the call
    rRec,       \* the RouteRecommendation it returned, or NoRec
    \* TransactionStatus component
    tStatus,    \* useState `status`: the last poll result, or NoStatus (null)
    isTracking, \* useState `isTracking`
    tMounted,   \* the component is mounted
    tInFlight,  \* apiClient.trackTransaction calls awaiting their response
    tQueries,   \* status queries issued so far
    tTerminal,  \* a poll has returned a terminal result
    tToasts,    \* openTxToast calls made so far
    \* pollBridgeStatus: one run
    isPolling,  \* the closure's `isPolling`
    pPc,        \* "inflight" (awaiting getBridgeStatus) | "timer" (setTimeout pending) | "stopped"
    pCancelled, \* the cleanup function has been called
    pQueries,   \* status queries issued so far
    pLog,       \* events of the run, in order
    \* price-fetcher: one call of fetchPrice and one of calculateSwapOutput
    fSymbol,    \* the argument of fetchPrice
    fPrice,     \* what fetchPrice ended with, or NoResult
    sArgs,      \* the arguments of calculateSwapOutput
    sOut,       \* what calculateSwapOutput ended with, or NoResult
    \* price resolution with the price cache
    cCache,     \* symbol -> the price last obtained and its time, or NoEntry
    cNow,       \* the time
    cLast,      \* the last lookup: what it found and ended with, or NoLookup
    \* price-fetcher: one call of fetchMultiplePrices
    mSymbols,   \* the argument, an array of symbols
    mPc,        \* "ready" | "joining" (awaiting Promise.all) | "returned"
    mPending,   \* indices of the lookups that have not settled
    mPrices,    \* the object `prices`
    mReturned,  \* what the call ended with, or NoResult
    \* balance lookups: one call of one of the three functions
    bFn,        \* the function called
    bBehaviours, \* how each provider of its list behaves
    bPc,        \* "ready" | "fetching" (await fetch) | "reading" (await json) | "returned"
    bIdx,       \* the provider the loop is at
    bTimer,     \* the abort timer of the current query is armed
    bLog,       \* the providers queried, in order, and how each query ended
    bResult,    \* what the call ended with, or NoResult
    \* chain resolution: one call of each function
    nChain,     \* the argument of normalizeChainId
    nId,        \* what normalizeChainId ended with, or NoResult
    eChainId,   \* the chainId argument of getBlockscoutExplorerUrl
    eBase,      \* what getBlockscoutExplorerUrl ended with, or NoResult
    uChain,     \* the chain argument of getBlockscoutUrl
    uBase,      \* what getBlockscoutUrl ended with, or NoResult
    \* NexusFlowExample component
    fStatus,    \* useState `status`
    fProgress,  \* useState `progress`
    fQuote,     \* useState `quote` is set
    fQuoteCalls,      \* calls of handleGetQuote so far
    fQuotesInFlight,  \* requestBridgeQuote calls awaiting their response
    fBridgeCalls,     \* calls of handleExecuteBridge so far
    fBridgesInFlight, \* bridge.bridge calls awaiting their result
    fListeners, \* progress listeners subscribed
    \* ChatInterface component
    kPc,        \* "idle", "quoting", or the await handleConfirmTrade is at
    isLoading,  \* useState `isLoading`
    kQuote,     \* useState `currentQuote` is set
    kQuoteId,   \* the quote that currentQuote holds: its place in kCards, or 0
    kCards,     \* the quotes of the messages that carry one, a card each
    kAddress,   \* the prop userAddress is set
    kLog,       \* the steps of handleConfirmTrade so far
    kTrackingTx, \* useState `trackingTx`, or NoTrackingTx (null)
    kTxMessages, \* the txHash values of the messages that carry one
    kConfirms,  \* calls of handleConfirmTrade so far
    \* AvailNexusBridge singleton
    aInitialized, \* field `initialized`
    aSdk,       \* field `sdk`: the number of the NexusSDK instance, 0 for null
    aPending,   \* the SDK instances whose initialize(provider) is awaited
    aSdkInits,  \* NexusSDK instances constructed and initialised so far
    aInits,     \* calls of initialize so far
    aLast       \* the last call that ended, and how

quoteVars == <<qPc, qReq, qQuote, qError, qSent>>
routeVars == <<rReq, rRec>>
trackVars == <<tStatus, isTracking, tMounted, tInFlight, tQueries, tTerminal, tToasts>>
pollVars  == <<isPolling, pPc, pCancelled, pQueries, pLog>>
priceVars == <<fSymbol, fPrice, sArgs, sOut>>
coreVars  == <<quoteVars, routeVars, trackVars, pollVars>>
cacheVars == <<cCache, cNow, cLast>>
multiVars == <<mSymbols, mPc, mPending, mPrices, mReturned>>
balanceVars == <<bFn, bBehaviours, bPc, bIdx, bTimer, bLog, bResult>>
serviceVars == <<priceVars, cacheVars, multiVars, balanceVars>>
chainVars == <<nChain, nId, eChainId, eBase, uChain, uBase>>
flowVars  == <<fStatus, fProgress, fQuote, fQuoteCalls, fQuotesInFlight,
               fBridgeCalls, fBridgesInFlight, fListeners>>
chatVars  == <<kPc, isLoading, kQuote, kQuoteId, kCards, kAddress, kLog, kTrackingTx, kTxMessages,
               kConfirms>>
nexusVars == <<aInitialized, aSdk, aPending, aSdkInits, aInits, aLast>>
uiVars    == <<chainVars, flowVars, chatVars, nexusVars>>
vars      == <<coreVars, serviceVars, uiVars>>

(***************************************************************************)
(* Bounds of the model.                                                    *)
(***************************************************************************)
MaxTrackQueries == 4   \* status queries one TransactionStatus may issue
MaxTrackInFlight == 2  \* trackTransaction calls in flight at once
MaxPollQueries == 3    \* status queries one pollBridgeStatus run may issue

(***************************************************************************)
(* Strings.  Chain and token names are drawn from small sets; toLowerCase  *)
(* and toUpperCase are tabulated on them.                                   *)
(***************************************************************************)
ChainInputs == {"sepolia", "Sepolia", "polygon-amoy", "solana", "constructor"}
TokenInputs == {"USDC", "usdc", "ETH", "DOGE"}
AmountInputs == {-5, 0, 1, 100}

toLowerCase(s) == IF s = "Sepolia" THEN "sepolia" ELSE s

toUpperCase(s) == IF s = "usdc" THEN "USDC" ELSE s

\* SUPPORTED_CHAINS: chain key -> id (as the decimal string of the number)
SUPPORTED_CHAINS ==
    [k \in {"sepolia", "polygon-amoy", "ethereum", "polygon", "arbitrum",
            "optimism", "base"} |->
        CASE k = "sepolia"      -> "11155111"
          [] k = "polygon-amoy" -> "80002"
          [] k = "ethereum"     -> "1"
          [] k = "polygon"      -> "137"
          [] k = "arbitrum"     -> "42161"
          [] k = "optimism"     -> "10"
          [] k = "base"         -> "8453"]

\* SUPPORTED_TOKENS: token key -> decimals
SUPPORTED_TOKENS ==
    [k \in {"USDC", "USDT", "ETH", "WETH"} |->
        IF k \in {"USDC", "USDT"} THEN 6 ELSE 18]

\* SUPPORTED_CHAINS and SUPPORTED_TOKENS are object literals: their prototype
\* is Object.prototype, whose properties the `in` operator also finds.
ObjectPrototypeKeys ==
    {"constructor", "__proto__", "hasOwnProperty", "isPrototypeOf",
     "propertyIsEnumerable", "toLocaleString", "toString", "valueOf"}

\* JavaScript's `key in obj` for an object literal with the own keys `own`
HasProperty(key, own) == key \in own \/ key \in ObjectPrototypeKeys

isChainSupported(chain) == HasProperty(toLowerCase(chain), DOMAIN SUPPORTED_CHAINS)

isTokenSupported(token) == HasProperty(toUpperCase(token), DOMAIN SUPPORTED_TOKENS)

\* SUPPORTED_CHAINS[chain.toLowerCase()].id: an inherited property (the
\* Object constructor, Object.prototype) has no `id`, which reads undefined
ChainIdOf(chain) ==
    IF toLowerCase(chain) \in DOMAIN SUPPORTED_CHAINS
    THEN SUPPORTED_CHAINS[toLowerCase(chain)]
    ELSE "undefined"

(***************************************************************************)
(* AvailNexusClient.getBridgeQuote                                         *)
(* Amounts are whole token units; output amounts are in thousandths of a   *)
(* unit, USD in cents, the fee percentage in hundredths of a percent.      *)
(* A field of the API's response that is absent (or 0, which `||` treats   *)
(* alike) is 0 here.                                                        *)
(***************************************************************************)
NoQuote == [quoteId |-> "none"]
NoError == [kind |-> "none", name |-> ""]
NoRequest == [sent |-> FALSE]
NoRec == [route |-> "none"]

QuoteResponses ==
    [quoteId : {"q1"}, outputAmount : {0, 900}, gasCost : {0, 300},
     bridgeFeePercent : {0, 10}, relayerFee : {0, 25}, estimatedTime : {0, 3}]

\* the validation of getBridgeQuote, in the order of the code: the Error it
\* throws, or NoError
ValidateQuote_NegativeOnly(fromChain, toChain, token, amount) ==
    IF ~isChainSupported(fromChain)
    THEN [kind |-> "chain_not_supported", name |-> fromChain]
    ELSE IF ~isChainSupported(toChain)
    THEN [kind |-> "chain_not_supported", name |-> toChain]
    ELSE IF ~isTokenSupported(token)
    THEN [kind |-> "token_not_supported", name |-> token]
    ELSE IF amount < 0
    THEN [kind |-> "amount_not_positive", name |-> "amount"]
    ELSE NoError

ValidateQuote(fromChain, toChain, token, amount) ==
    IF ~isChainSupported(fromChain)
    THEN [kind |-> "chain_not_supported", name |-> fromChain]
    ELSE IF ~isChainSupported(toChain)
    THEN [kind |-> "chain_not_supported", name |-> toChain]
    ELSE IF ~isTokenSupported(token)
    THEN [kind |-> "token_not_supported", name |-> token]
    ELSE IF amount <= 0
    THEN [kind |-> "amount_not_positive", name |-> "amount"]
    ELSE NoError

\* the body of POST /quotes
QuoteRequestBody(fromChain, toChain, token, amount) ==
    [sent |-> TRUE,
     fromChainId |-> ChainIdOf(fromChain),
     toChainId |-> ChainIdOf(toChain),
     token |-> toUpperCase(token),
     amount |-> amount]

\* the BridgeQuote built from the response; exchangeRate is the exact
\* quotient outputAmount / amount, kept as numerator and denominator
BuildQuote(req, data) ==
    LET out == IF data.outputAmount # 0 THEN data.outputAmount
               ELSE req.amount * 995
    IN [quoteId |-> data.quoteId,
        status |-> "success",
        fromChain |-> req.fromChain,
        toChain |-> req.toChain,
        token |-> toUpperCase(req.token),
        amount |-> req.amount,
        outputAmount |-> out,
        gasCostUsd |-> IF data.gasCost # 0 THEN data.gasCost
                       ELSE IF toLowerCase(req.fromChain) = "sepolia" THEN 500
                       ELSE 200,
        bridgeFeePercent |-> IF data.bridgeFeePercent # 0
                             THEN data.bridgeFeePercent ELSE 5,
        relayerFeeUsd |-> IF data.relayerFee # 0 THEN data.relayerFee ELSE 50,
        estimatedTimeMinutes |-> IF data.estimatedTime # 0
                                 THEN data.estimatedTime ELSE 10,
        exchangeRate |-> <<out, req.amount * 1000>>]

\* getBridgeQuote up to its await: the validation and, when it passes, the POST
GetBridgeQuote ==
    /\ qPc = "ready"
    /\ LET err == ValidateQuote(qReq.fromChain, qReq.toChain, qReq.token, qReq.amount)
       IN IF err # NoError
          THEN /\ qPc' = "thrown"
               /\ qError' = err
               /\ qSent' = NoRequest
          ELSE /\ qPc' = "awaiting"
               /\ qError' = NoError
               /\ qSent' = QuoteRequestBody(qReq.fromChain, qReq.toChain,
                                            qReq.token, qReq.amount)
    /\ UNCHANGED <<qReq, qQuote>>
    /\ UNCHANGED <<routeVars, trackVars, pollVars, serviceVars, uiVars>>

\* the POST resolves: the quote is built and returned
QuoteApiRespond(data) ==
    /\ qPc = "awaiting"
    /\ qPc' = "returned"
    /\ qQuote' = BuildQuote(qReq, data)
    /\ UNCHANGED <<qReq, qError, qSent>>
    /\ UNCHANGED <<routeVars, trackVars, pollVars, serviceVars, uiVars>>

\* the POST rejects (network error, timeout, non-2xx): the error is rethrown
QuoteApiFail ==
    /\ qPc = "awaiting"
    /\ qPc' = "thrown"
    /\ qError' = [kind |-> "api_error", name |-> ""]
    /\ UNCHANGED <<qReq, qQuote, qSent>>
    /\ UNCHANGED <<routeVars, trackVars, pollVars, serviceVars, uiVars>>

(***************************************************************************)
(* AvailNexusClient.getRouteRecommendation                                 *)
(***************************************************************************)
RouteOf_SwapFirst(fromChain, toChain, fromToken, toToken) ==
    IF fromToken = toToken THEN "direct_bridge" ELSE "swap_then_bridge"

\* the route chosen: only the tokens are compared (===)
RouteOf(fromChain, toChain, fromToken, toToken) ==
    IF fromToken = toToken THEN "direct_bridge" ELSE "bridge_then_swap"

RouteRecommendation(fromChain, toChain, fromToken, toToken, amount) ==
    LET route == RouteOf(fromChain, toChain, fromToken, toToken)
    IN [route |-> route,
        expectedOutput |-> IF route = "direct_bridge" THEN amount * 995
                           ELSE amount * 990,
        gasCostUsd |-> IF route = "direct_bridge" THEN 500 ELSE 700,
        estimatedTimeMinutes |-> IF route = "direct_bridge" THEN 10 ELSE 15,
        confidence |-> IF route = "direct_bridge" THEN 95 ELSE 85]

GetRouteRecommendation ==
    /\ rRec' = RouteRecommendation(rReq.fromChain, rReq.toChain, rReq.fromToken,
                                   rReq.toToken, rReq.amount)
    /\ UNCHANGED rReq
    /\ UNCHANGED <<quoteVars, trackVars, pollVars, serviceVars, uiVars>>

\* the requests the calls are made with
QuoteRequests ==
    [fromChain : ChainInputs, toChain : ChainInputs, token : TokenInputs,
     amount : AmountInputs]

RouteRequests ==
    [fromChain : ChainInputs, toChain : ChainInputs, fromToken : TokenInputs,
     toToken : TokenInputs, amount : AmountInputs]

QuoteInit ==
    /\ qPc = "ready"
    /\ qQuote = NoQuote
    /\ qError = NoError
    /\ qSent = NoRequest

RouteInit == rRec = NoRec

QuoteNext ==
    \/ GetBridgeQuote
    \/ \E data \in QuoteResponses : QuoteApiRespond(data)
    \/ QuoteApiFail

RouteNext == GetRouteRecommendation

(***************************************************************************)
(* The TransactionStatus component: the tracking effect polls              *)
(* apiClient.trackTransaction at once and then every 5 s for as long as    *)
(* isTracking holds; each response replaces `status`.  A response may take *)
(* longer than the interval (the client's timeout is 30 s), so several     *)
(* queries can be in flight and their responses arrive in any order.  The  *)
(* re-render that follows setIsTracking(false), with the effect's cleanup  *)
(* (clearInterval), is taken as part of the step that handles the response.*)
(***************************************************************************)
NoStatus == [status |-> "null", overall_status |-> "none", progress |-> 0]

TrackResults ==
    [status : {"pending", "success", "failed"},
     overall_status : {"none", "completed", "failed"},
     progress : {0, 50, 100}]

\* the statuses that end a transaction's tracking
TerminalResult(result) ==
    \/ result.status \in {"success", "failed"}
    \/ result.overall_status \in {"completed", "failed"}

ShouldStopTracking_SuccessOnly(result) ==
    \/ result.status = "success"
    \/ result.overall_status = "completed"

\* the condition under which trackTransaction calls setIsTracking(false)
ShouldStopTracking(result) ==
    \/ result.status = "success"
    \/ result.status = "failed"
    \/ result.overall_status = "completed"
    \/ result.overall_status = "failed"

\* what the component renders from `status`
progress(status) == status.progress

isComplete(status) == progress(status) = 100

isFailed(status) == status.status = "failed" \/ status.overall_status = "failed"

Heading(status) ==
    IF isComplete(status) THEN "Transaction Complete"
    ELSE IF isFailed(status) THEN "Transaction Failed"
    ELSE "Tracking Transaction"

\* the interval fires: trackTransaction issues a query
TrackerTick ==
    /\ tMounted /\ isTracking
    /\ tQueries < MaxTrackQueries
    /\ tInFlight < MaxTrackInFlight
    /\ tInFlight' = tInFlight + 1
    /\ tQueries' = tQueries + 1
    /\ UNCHANGED <<tStatus, isTracking, tMounted, tTerminal, tToasts>>
    /\ UNCHANGED <<quoteVars, routeVars, pollVars, serviceVars, uiVars>>

\* a query resolves with `result`: setStatus, openTxToast (a fresh result
\* carries no `notified`), and the stop of the tracking on a terminal result.
\* The state of an unmounted component is no longer updated.
TrackerResult(result) ==
    /\ tInFlight > 0
    /\ tInFlight' = tInFlight - 1
    /\ tStatus' = IF tMounted THEN result ELSE tStatus
    /\ tToasts' = tToasts + 1
    /\ isTracking' = IF tMounted /\ ShouldStopTracking(result) THEN FALSE
                     ELSE isTracking
    /\ tTerminal' = (tTerminal \/ TerminalResult(result))
    /\ UNCHANGED <<tMounted, tQueries>>
    /\ UNCHANGED <<quoteVars, routeVars, pollVars, serviceVars, uiVars>>

\* a query rejects: the catch logs the error and nothing else changes
TrackerQueryFails ==
    /\ tInFlight > 0
    /\ tInFlight' = tInFlight - 1
    /\ UNCHANGED <<tStatus, isTracking, tMounted, tQueries, tTerminal, tToasts>>
    /\ UNCHANGED <<quoteVars, routeVars, pollVars, serviceVars, uiVars>>

\* the component is unmounted: the effect's cleanup clears the interval
TrackerUnmount ==
    /\ tMounted
    /\ tMounted' = FALSE
    /\ UNCHANGED <<tStatus, isTracking, tInFlight, tQueries, tTerminal, tToasts>>
    /\ UNCHANGED <<quoteVars, routeVars, pollVars, serviceVars, uiVars>>

\* after mount: the effect has run, with its first query in flight
TrackerInit ==
    /\ tStatus = NoStatus
    /\ isTracking = TRUE
    /\ tMounted = TRUE
    /\ tInFlight = 1
    /\ tQueries = 1
    /\ tTerminal = FALSE
    /\ tToasts = 0

TrackerNext ==
    \/ TrackerTick
    \/ \E result \in TrackResults : TrackerResult(result)
    \/ TrackerQueryFails
    \/ TrackerUnmount

(***************************************************************************)
(* pollBridgeStatus: poll() awaits getBridgeStatus, reports the status and *)
(* either stops or arms a timer for the next poll.  onUpdate and           *)
(* onComplete are the caller's and may throw inside the try block.         *)
(***************************************************************************)
BridgeStatuses == {"bridging", "complete", "failed"}

\* the statuses on which poll() stops
PollStops(overallStatus) == overallStatus = "complete" \/ overallStatus = "failed"

\* getBridgeStatus resolves with `overallStatus`
PollResolve(overallStatus, updateThrows, completeThrows) ==
    /\ pPc = "inflight"
    /\ IF updateThrows
       THEN /\ pLog' = pLog \o <<overallStatus, "onUpdate", "onError">>
            /\ isPolling' = FALSE
            /\ pPc' = "stopped"
       ELSE IF PollStops(overallStatus)
       THEN /\ pLog' = pLog \o <<overallStatus, "onUpdate", "onComplete">>
                            \o (IF completeThrows THEN <<"onError">> ELSE <<>>)
            /\ isPolling' = FALSE
            /\ pPc' = "stopped"
       ELSE /\ pLog' = pLog \o <<overallStatus, "onUpdate">>
            /\ isPolling' = isPolling
            /\ pPc' = IF isPolling THEN "timer" ELSE "stopped"
    /\ UNCHANGED <<pCancelled, pQueries>>
    /\ UNCHANGED <<quoteVars, routeVars, trackVars, serviceVars, uiVars>>

\* getBridgeStatus rejects (network error, non-OK response): the catch
PollReject ==
    /\ pPc = "inflight"
    /\ pLog' = pLog \o <<"queryFailed", "onError">>
    /\ isPolling' = FALSE
    /\ pPc' = "stopped"
    /\ UNCHANGED <<pCancelled, pQueries>>
    /\ UNCHANGED <<quoteVars, routeVars, trackVars, serviceVars, uiVars>>

\* the timer fires: poll() runs again and issues a query
PollTimer ==
    /\ pPc = "timer"
    /\ pQueries < MaxPollQueries
    /\ pPc' = "inflight"
    /\ pQueries' = pQueries + 1
    /\ pLog' = Append(pLog, "query")
    /\ UNCHANGED <<isPolling, pCancelled>>
    /\ UNCHANGED <<quoteVars, routeVars, trackVars, serviceVars, uiVars>>

\* the caller calls the cleanup function pollBridgeStatus returned
PollCancel ==
    /\ ~pCancelled
    /\ pCancelled' = TRUE
    /\ isPolling' = FALSE
    /\ pLog' = Append(pLog, "cancel")
    /\ UNCHANGED <<pPc, pQueries>>
    /\ UNCHANGED <<quoteVars, routeVars, trackVars, serviceVars, uiVars>>

\* after pollBridgeStatus has returned: the first poll() is at its await
PollInit ==
    /\ isPolling = TRUE
    /\ pPc = "inflight"
    /\ pCancelled = FALSE
    /\ pQueries = 1
    /\ pLog = <<"query">>

PollNext ==
    \/ \E overallStatus \in BridgeStatuses, updateThrows \in BOOLEAN,
          completeThrows \in BOOLEAN :
          PollResolve(overallStatus, updateThrows, completeThrows)
    \/ PollReject
    \/ PollTimer
    \/ PollCancel

(***************************************************************************)
(* price-fetcher: fetchPrice and calculateSwapOutput.  Prices are in        *)
(* thousandths of a dollar, the slippage in hundredths of a percent; the    *)
(* amount calculateSwapOutput returns is kept exact, as numerator and       *)
(* denominator.  Both functions end by returning a number; a call that      *)
(* ended with an exception would be [kind |-> "thrown", ...].               *)
(***************************************************************************)
NoResult == [kind |-> "none"]

Returned(value) == [kind |-> "returned", value |-> value]

MOCK_PRICES ==
    [k \in {"ETH", "USDC", "USDT", "DAI", "WETH", "EURC", "BTC", "MATIC",
            "ARB", "SOL"} |->
        CASE k = "ETH"   -> 3456780
          [] k = "USDC"  -> 1000
          [] k = "USDT"  -> 998
          [] k = "DAI"   -> 999
          [] k = "WETH"  -> 3456780
          [] k = "EURC"  -> 1080
          [] k = "BTC"   -> 67234500
          [] k = "MATIC" -> 850
          [] k = "ARB"   -> 750
          [] k = "SOL"   -> 145320]

PriceSymbols == {"ETH", "USDC", "USDT", "BTC", "usdc", "DOGE"}
PriceInputs == {-1000, 0, 998, 1000}
SwapAmountInputs == {1, 50}

\* the price a symbol is looked up with: that of the table, or 0
fetchPrice(symbol) ==
    IF symbol \in DOMAIN MOCK_PRICES /\ MOCK_PRICES[symbol] # 0
    THEN MOCK_PRICES[symbol]
    ELSE 0

DefaultSlippagePercent == 50

calculateSwapOutput(inputAmount, fromPrice, toPrice, slippagePercent) ==
    IF fromPrice = 0 \/ toPrice = 0 THEN <<0, 1>>
    ELSE <<inputAmount * fromPrice * (10000 - slippagePercent), toPrice * 10000>>

FetchPrice ==
    /\ fPrice = NoResult
    /\ fPrice' = Returned(fetchPrice(fSymbol))
    /\ UNCHANGED <<fSymbol, sArgs, sOut>>
    /\ UNCHANGED <<coreVars, cacheVars, multiVars, balanceVars, uiVars>>

CalculateSwapOutput ==
    /\ sOut = NoResult
    /\ sOut' = Returned(calculateSwapOutput(sArgs.inputAmount, sArgs.fromPrice,
                                            sArgs.toPrice, DefaultSlippagePercent))
    /\ UNCHANGED <<fSymbol, fPrice, sArgs>>
    /\ UNCHANGED <<coreVars, cacheVars, multiVars, balanceVars, uiVars>>

SwapRequests ==
    [inputAmount : SwapAmountInputs, fromPrice : PriceInputs, toPrice : PriceInputs]

PriceInit ==
    /\ fPrice = NoResult
    /\ sOut = NoResult

PriceIdle ==
    /\ PriceInit
    /\ fSymbol = "USDC"
    /\ sArgs = [inputAmount |-> 50, fromPrice |-> 1000, toPrice |-> 998]

PriceNext ==
    \/ FetchPrice
    \/ CalculateSwapOutput

(***************************************************************************)
(* Price resolution with the short-lived price cache.  The Price Source    *)
(* answers a lookup with a price or fails; a lookup that obtains a         *)
(* positive price stores it with the time of the lookup; one that does not *)
(* falls back to the stored price of the symbol if it is not older than    *)
(* the freshness window, at reduced confidence, and otherwise fails with   *)
(* PriceUnavailable.  Time is in seconds.                                  *)
(***************************************************************************)
FreshnessWindow == 60

MaxClock == 80   \* the time up to which lookups are followed

NoEntry == [price |-> 0, at |-> -1]
NoLookup == [symbol |-> "none"]

CacheSymbols == {"ETH", "USDC"}

\* what the Price Source answers: a price, or a failure
SourceOutcomes ==
    [ok : {TRUE}, price : {-1000, 0, 998, 1000}] \cup {[ok |-> FALSE, price |-> 0]}

Fresh_Always(entry, now) == entry # NoEntry

Fresh(entry, now) == entry # NoEntry /\ now - entry.at <= FreshnessWindow

ResolvePrice(symbol, outcome) ==
    LET entry == cCache[symbol]
        obtained == outcome.ok /\ outcome.price > 0
        result ==
            IF obtained
            THEN [kind |-> "returned", price |-> outcome.price, confidence |-> "full"]
            ELSE IF Fresh(entry, cNow)
            THEN [kind |-> "returned", price |-> entry.price, confidence |-> "reduced"]
            ELSE [kind |-> "thrown", name |-> "PriceUnavailable"]
    IN /\ cCache' = IF obtained
                    THEN [cCache EXCEPT ![symbol] = [price |-> outcome.price, at |-> cNow]]
                    ELSE cCache
       /\ cLast' = [symbol |-> symbol, obtained |-> obtained, cached |-> entry,
                    at |-> cNow, result |-> result]
       /\ UNCHANGED cNow
       /\ UNCHANGED <<coreVars, priceVars, multiVars, balanceVars, uiVars>>

\* ten seconds pass
CacheTick ==
    /\ cNow + 10 <= MaxClock
    /\ cNow' = cNow + 10
    /\ UNCHANGED <<cCache, cLast>>
    /\ UNCHANGED <<coreVars, priceVars, multiVars, balanceVars, uiVars>>

CacheInit ==
    /\ cCache = [s \in CacheSymbols |-> NoEntry]
    /\ cNow = 0
    /\ cLast = NoLookup

CacheNext ==
    \/ \E symbol \in CacheSymbols, outcome \in SourceOutcomes :
          ResolvePrice(symbol, outcome)
    \/ CacheTick

(***************************************************************************)
(* price-fetcher: fetchMultiplePrices.  symbols.map starts one lookup per   *)
(* element, each writing prices[symbol] when its fetchPrice has settled;    *)
(* the lookups settle in any order and Promise.all waits for all of them.   *)
(* fetchPrice never rejects, so the catch block is not entered.             *)
(***************************************************************************)
MaxSymbols == 3   \* length of the symbols array

MultiSymbols == {"ETH", "USDC", "DOGE"}

\* obj[key] = value
SetProperty(obj, key, value) ==
    [k \in DOMAIN obj \cup {key} |-> IF k = key THEN value ELSE obj[k]]

\* Promise.all over the `total` lookups, of which `pending` have not settled
AllSettled_Race(pending, total) == total = 0 \/ Cardinality(pending) < total

AllSettled(pending, total) == pending = {}

FetchMultiplePrices ==
    /\ mPc = "ready"
    /\ mPc' = "joining"
    /\ mPending' = DOMAIN mSymbols
    /\ mPrices' = <<>>
    /\ UNCHANGED <<mSymbols, mReturned>>
    /\ UNCHANGED <<coreVars, priceVars, cacheVars, balanceVars, uiVars>>

LookupSettles(i) ==
    /\ i \in mPending
    /\ mPending' = mPending \ {i}
    /\ mPrices' = SetProperty(mPrices, mSymbols[i], fetchPrice(mSymbols[i]))
    /\ UNCHANGED <<mSymbols, mPc, mReturned>>
    /\ UNCHANGED <<coreVars, priceVars, cacheVars, balanceVars, uiVars>>

FetchMultipleReturn ==
    /\ mPc = "joining"
    /\ AllSettled(mPending, Len(mSymbols))
    /\ mPc' = "returned"
    /\ mReturned' = Returned(mPrices)
    /\ UNCHANGED <<mSymbols, mPending, mPrices>>
    /\ UNCHANGED <<coreVars, priceVars, cacheVars, balanceVars, uiVars>>

MultiInit ==
    /\ mPc = "ready"
    /\ mPending = {}
    /\ mPrices = <<>>
    /\ mReturned = NoResult

MultiNext ==
    \/ FetchMultiplePrices
    \/ \E i \in 1..MaxSymbols : LookupSettles(i)
    \/ FetchMultipleReturn

(***************************************************************************)
(* Balance lookups: fetchTokenBalance (token-balance.ts), getETHBalance    *)
(* and getTokenBalance (all-balances.ts).  Each walks its list of RPC      *)
(* providers; a provider's behaviour is an input of the lookup:            *)
(*   "ok"      a response with a result, the balance 10 * k of provider k  *)
(*   "empty"   a response with neither error nor a usable result ("0x")    *)
(*   "error"   a JSON-RPC error response                                   *)
(*   "rejects" fetch rejects (network error)                               *)
(*   "silent"  the provider never answers                                  *)
(*   "stalls"  the response's headers arrive, its body never does          *)
(***************************************************************************)
BalanceFunctions == {"fetchTokenBalance", "getETHBalance", "getTokenBalance"}

ProviderBehaviours == {"ok", "empty", "error", "rejects", "silent", "stalls"}

\* SEPOLIA_RPCS has four entries, the `rpcs` of all-balances.ts three
Providers(fn) == IF fn = "fetchTokenBalance" THEN 4 ELSE 3

\* the lookups of all-balances.ts arm a 5 s timer that aborts the fetch
HasAbortTimer(fn) == fn # "fetchTokenBalance"

\* what the loop body does with the parsed response
AfterResponse_Abort(fn, behaviour) ==
    IF behaviour = "ok" THEN "return" ELSE "return0"

AfterResponse(fn, behaviour) ==
    IF fn = "fetchTokenBalance"
    THEN CASE behaviour = "error" -> "next"
           [] behaviour = "empty" -> "return0"
           [] OTHER               -> "return"
    ELSE IF behaviour = "ok" THEN "return" ELSE "next"

\* the query of provider k is sent
QueryProvider(k) ==
    /\ bPc' = "fetching"
    /\ bIdx' = k
    /\ bTimer' = HasAbortTimer(bFn)
    /\ bLog' = Append(bLog, [provider |-> k, seen |-> "pending"])
    /\ UNCHANGED bResult

\* the lookup returns value
ReturnBalance(value, seen) ==
    /\ bPc' = "returned"
    /\ bResult' = Returned(value)
    /\ bTimer' = FALSE
    /\ bLog' = [bLog EXCEPT ![Len(bLog)].seen = seen]
    /\ UNCHANGED bIdx

\* the query of the current provider has ended as `seen`: the loop goes on
\* with the next provider, or ends and 0 is returned
NextProvider(seen) ==
    IF bIdx < Providers(bFn)
    THEN /\ bPc' = "fetching"
         /\ bIdx' = bIdx + 1
         /\ bTimer' = HasAbortTimer(bFn)
         /\ bLog' = Append([bLog EXCEPT ![Len(bLog)].seen = seen],
                           [provider |-> bIdx + 1, seen |-> "pending"])
         /\ UNCHANGED bResult
    ELSE ReturnBalance(0, seen)

BalanceLookup ==
    /\ bPc = "ready"
    /\ QueryProvider(1)
    /\ UNCHANGED <<bFn, bBehaviours>>
    /\ UNCHANGED <<coreVars, priceVars, cacheVars, multiVars, uiVars>>

\* fetch resolves with the response; clearTimeout
FetchResolves ==
    /\ bPc = "fetching"
    /\ bBehaviours[bIdx] \in {"ok", "empty", "error", "stalls"}
    /\ bPc' = "reading"
    /\ bTimer' = FALSE
    /\ UNCHANGED <<bFn, bBehaviours, bIdx, bLog, bResult>>
    /\ UNCHANGED <<coreVars, priceVars, cacheVars, multiVars, uiVars>>

\* fetch rejects: the catch block
FetchRejects ==
    /\ bPc = "fetching"
    /\ bBehaviours[bIdx] = "rejects"
    /\ NextProvider("rejected")
    /\ UNCHANGED <<bFn, bBehaviours>>
    /\ UNCHANGED <<coreVars, priceVars, cacheVars, multiVars, uiVars>>

\* the 5 s timer fires before fetch has settled: controller.abort() makes
\* fetch reject
AbortTimerFires ==
    /\ bPc = "fetching"
    /\ bTimer
    /\ NextProvider("timeout")
    /\ UNCHANGED <<bFn, bBehaviours>>
    /\ UNCHANGED <<coreVars, priceVars, cacheVars, multiVars, uiVars>>

\* response.json() resolves
ResponseRead ==
    /\ bPc = "reading"
    /\ bBehaviours[bIdx] # "stalls"
    /\ LET behaviour == bBehaviours[bIdx]
           step == AfterResponse(bFn, behaviour)
       IN CASE step = "return"  -> ReturnBalance(10 * bIdx, behaviour)
            [] step = "return0" -> ReturnBalance(0, behaviour)
            [] OTHER            -> NextProvider(behaviour)
    /\ UNCHANGED <<bFn, bBehaviours>>
    /\ UNCHANGED <<coreVars, priceVars, cacheVars, multiVars, uiVars>>

BalanceInit ==
    /\ bPc = "ready"
    /\ bIdx = 0
    /\ bTimer = FALSE
    /\ bLog = <<>>
    /\ bResult = NoResult

BalanceIdle ==
    /\ BalanceInit
    /\ bFn = "getETHBalance"
    /\ bBehaviours = <<"ok", "ok", "ok">>

BalanceNext ==
    \/ BalanceLookup
    \/ FetchResolves
    \/ FetchRejects
    \/ AbortTimerFires
    \/ ResponseRead

(***************************************************************************)
(* Chain resolution: normalizeChainId and getBlockscoutExplorerUrl          *)
(* (BlockscoutSDK.tsx) and AvailNexusClient.getBlockscoutUrl.  The tables   *)
(* are object literals read with `table[key] || fallback`: a key inherited  *)
(* from Object.prototype reads a function or object, which is truthy and    *)
(* is written "[inherited]" here.  Of the URLs only the part before the     *)
(* transaction hash is kept.                                                *)
(***************************************************************************)
chainMap ==
    [k \in {"ethereum", "eth", "polygon", "matic", "arbitrum", "arb", "base",
            "optimism", "op", "sepolia", "polygon-amoy", "arbitrum-sepolia",
            "base-sepolia", "optimism-sepolia"} |->
        CASE k \in {"ethereum", "eth"}  -> "1"
          [] k \in {"polygon", "matic"} -> "137"
          [] k \in {"arbitrum", "arb"}  -> "42161"
          [] k = "base"                 -> "8453"
          [] k \in {"optimism", "op"}   -> "10"
          [] k = "sepolia"              -> "11155111"
          [] k = "polygon-amoy"         -> "80002"
          [] k = "arbitrum-sepolia"     -> "421614"
          [] k = "base-sepolia"         -> "84532"
          [] k = "optimism-sepolia"     -> "11155420"]

explorerUrls ==
    [k \in {"1", "137", "42161", "8453", "10", "11155111", "80002", "421614",
            "84532", "11155420"} |->
        CASE k = "1"        -> "https://eth.blockscout.com"
          [] k = "137"      -> "https://polygon.blockscout.com"
          [] k = "42161"    -> "https://arbitrum.blockscout.com"
          [] k = "8453"     -> "https://base.blockscout.com"
          [] k = "10"       -> "https://optimism.blockscout.com"
          [] k = "11155111" -> "https://sepolia.etherscan.io"
          [] k = "80002"    -> "https://amoy.polygonscan.com"
          [] k = "421614"   -> "https://sepolia.arbiscan.io"
          [] k = "84532"    -> "https://sepolia.basescan.org"
          [] k = "11155420" -> "https://sepolia-optimism.etherscan.io"]

explorers ==
    [k \in {"ethereum", "sepolia", "polygon", "polygon-amoy", "arbitrum",
            "optimism", "base"} |->
        CASE k = "ethereum"     -> "https://etherscan.io/tx/"
          [] k = "sepolia"      -> "https://sepolia.etherscan.io/tx/"
          [] k = "polygon"      -> "https://polygonscan.com/tx/"
          [] k = "polygon-amoy" -> "https://amoy.polygonscan.com/tx/"
          [] k = "arbitrum"     -> "https://arbiscan.io/tx/"
          [] k = "optimism"     -> "https://optimistic.etherscan.io/tx/"
          [] k = "base"         -> "https://basescan.org/tx/"]

\* table[key] || fallback
LookupOr(table, key, fallback) ==
    IF key \in DOMAIN table THEN table[key]
    ELSE IF key \in ObjectPrototypeKeys THEN "[inherited]"
    ELSE fallback

\* the argument of normalizeChainId is a number or a string; a number is
\* written by its decimal digits
ChainArgs ==
    [type : {"string"}, value : ChainInputs \cup {"matic"}]
        \cup [type : {"number"}, value : {"137", "999"}]

ChainIdInputs == {"1", "11155111", "80002", "999", "solana", "constructor"}

normalizeChainId(chain) ==
    IF chain.type = "number" THEN chain.value
    ELSE LookupOr(chainMap, toLowerCase(chain.value), "1")

getBlockscoutExplorerUrl(chainId) ==
    LookupOr(explorerUrls, chainId, explorerUrls["1"])

getBlockscoutUrl(chain) ==
    LookupOr(explorers, toLowerCase(chain), "https://blockscout.com/tx/")

NormalizeChainId ==
    /\ nId = NoResult
    /\ nId' = Returned(normalizeChainId(nChain))
    /\ UNCHANGED <<nChain, eChainId, eBase, uChain, uBase>>
    /\ UNCHANGED <<coreVars, serviceVars, flowVars, chatVars, nexusVars>>

GetBlockscoutExplorerUrl ==
    /\ eBase = NoResult
    /\ eBase' = Returned(getBlockscoutExplorerUrl(eChainId))
    /\ UNCHANGED <<nChain, nId, eChainId, uChain, uBase>>
    /\ UNCHANGED <<coreVars, serviceVars, flowVars, chatVars, nexusVars>>

GetBlockscoutUrl ==
    /\ uBase = NoResult
    /\ uBase' = Returned(getBlockscoutUrl(uChain))
    /\ UNCHANGED <<nChain, nId, eChainId, eBase, uChain>>
    /\ UNCHANGED <<coreVars, serviceVars, flowVars, chatVars, nexusVars>>

ChainInit ==
    /\ nId = NoResult
    /\ eBase = NoResult
    /\ uBase = NoResult

ChainIdle ==
    /\ ChainInit
    /\ nChain = [type |-> "string", value |-> "sepolia"]
    /\ eChainId = "11155111"
    /\ uChain = "sepolia"

ChainNext ==
    \/ NormalizeChainId
    \/ GetBlockscoutExplorerUrl
    \/ GetBlockscoutUrl

(***************************************************************************)
(* The NexusFlowExample component with a connected wallet.  A handler runs  *)
(* up to its await in one step and its continuation in another; the state  *)
(* updates of one step are rendered together.  The buttons' `disabled` and  *)
(* the conditional rendering decide which handlers the user can start; the  *)
(* close button of the visualizer is shown whenever a quote is.             *)
(***************************************************************************)
MaxBridgeCalls == 2   \* calls of handleExecuteBridge
MaxQuoteCalls == 2    \* calls of handleGetQuote

Min(a, b) == IF a < b THEN a ELSE b

\* setProgress((prev) => Math.min(prev + 15, 90)), once per subscribed listener
RECURSIVE ProgressAfter(_, _)
ProgressAfter(prev, listeners) ==
    IF listeners = 0 THEN prev
    ELSE ProgressAfter(Min(prev + 15, 90), listeners - 1)

HandleGetQuote ==
    /\ fStatus = "idle"
    /\ fQuoteCalls < MaxQuoteCalls
    /\ fStatus' = "loading"
    /\ fQuoteCalls' = fQuoteCalls + 1
    /\ fQuotesInFlight' = fQuotesInFlight + 1
    /\ UNCHANGED <<fProgress, fQuote, fBridgeCalls, fBridgesInFlight, fListeners>>
    /\ UNCHANGED <<coreVars, serviceVars, chainVars, chatVars, nexusVars>>

\* requestBridgeQuote resolves (ok) or rejects
FlowQuoteSettles(ok) ==
    /\ fQuotesInFlight > 0
    /\ fQuotesInFlight' = fQuotesInFlight - 1
    /\ IF ok THEN fQuote' = TRUE /\ fStatus' = "idle"
             ELSE fStatus' = "error" /\ UNCHANGED fQuote
    /\ UNCHANGED <<fProgress, fQuoteCalls, fBridgeCalls, fBridgesInFlight, fListeners>>
    /\ UNCHANGED <<coreVars, serviceVars, chainVars, chatVars, nexusVars>>

\* handleExecuteBridge up to `await bridge.bridge`; onProgressStep throws when
\* the SDK is not initialized
HandleExecuteBridge(initialized) ==
    /\ fQuote
    /\ fStatus = "idle"
    /\ fBridgeCalls < MaxBridgeCalls
    /\ fBridgeCalls' = fBridgeCalls + 1
    /\ fProgress' = 0
    /\ IF initialized
       THEN /\ fStatus' = "executing"
            /\ fListeners' = fListeners + 1
            /\ fBridgesInFlight' = fBridgesInFlight + 1
       ELSE /\ fStatus' = "error"
            /\ UNCHANGED <<fListeners, fBridgesInFlight>>
    /\ UNCHANGED <<fQuote, fQuoteCalls, fQuotesInFlight>>
    /\ UNCHANGED <<coreVars, serviceVars, chainVars, chatVars, nexusVars>>

\* the SDK reports a completed step of a bridge in progress
ProgressStep ==
    /\ fBridgesInFlight > 0
    /\ fListeners > 0
    /\ fProgress' = ProgressAfter(fProgress, fListeners)
    /\ UNCHANGED <<fStatus, fQuote, fQuoteCalls, fQuotesInFlight, fBridgeCalls,
                   fBridgesInFlight, fListeners>>
    /\ UNCHANGED <<coreVars, serviceVars, chainVars, chatVars, nexusVars>>

\* bridge.bridge resolves; on failure the throw skips the unsubscribe
BridgeSettles(success) ==
    /\ fBridgesInFlight > 0
    /\ fBridgesInFlight' = fBridgesInFlight - 1
    /\ IF success
       THEN /\ fProgress' = 100
            /\ fStatus' = "complete"
            /\ fListeners' = fListeners - 1
       ELSE /\ fStatus' = "error"
            /\ UNCHANGED <<fProgress, fListeners>>
    /\ UNCHANGED <<fQuote, fQuoteCalls, fQuotesInFlight, fBridgeCalls>>
    /\ UNCHANGED <<coreVars, serviceVars, chainVars, chatVars, nexusVars>>

OnClose ==
    /\ fQuote
    /\ fQuote' = FALSE
    /\ fStatus' = "idle"
    /\ fProgress' = 0
    /\ UNCHANGED <<fQuoteCalls, fQuotesInFlight, fBridgeCalls, fBridgesInFlight,
                   fListeners>>
    /\ UNCHANGED <<coreVars, serviceVars, chainVars, chatVars, nexusVars>>

FlowInit ==
    /\ fStatus = "idle"
    /\ fProgress = 0
    /\ fQuote = FALSE
    /\ fQuoteCalls = 0
    /\ fQuotesInFlight = 0
    /\ fBridgeCalls = 0
    /\ fBridgesInFlight = 0
    /\ fListeners = 0

FlowNext ==
    \/ HandleGetQuote
    \/ \E ok \in BOOLEAN : FlowQuoteSettles(ok)
    \/ \E initialized \in BOOLEAN : HandleExecuteBridge(initialized)
    \/ ProgressStep
    \/ \E success \in BOOLEAN : BridgeSettles(success)
    \/ OnClose

(***************************************************************************)
(* The ChatInterface component: handleSendMessage, handleConfirmTrade and  *)
(* handleCancelTrade.  The send button, and the confirm and cancel buttons  *)
(* of RateDisplay, are disabled while isLoading holds.  A handler sees the  *)
(* currentQuote and userAddress of the render it was created in, whatever   *)
(* the page passes as userAddress later.  kLog records the steps of         *)
(* handleConfirmTrade: its calls, the transactions it submits to the        *)
(* wallet, the executeTrade notification and setTrackingTx, each with the   *)
(* currentQuote and userAddress the handler holds.                          *)
(***************************************************************************)
MaxConfirms == 2   \* calls of handleConfirmTrade

MaxCards == 2      \* quotes received, each shown on a card of its own

NoTrackingTx == [hash |-> "null", toChain |-> "undefined"]

\* the to_chain of a RateQuote (optional)
QuoteToChains == {"undefined", "polygon-amoy", "polygon"}

chainDisplayMap ==
    [k \in {"sepolia", "polygon-amoy", "arbitrum-sepolia", "base-sepolia",
            "optimism-sepolia"} |-> k]

\* currentQuote.to_chain ? chainDisplayMap[currentQuote.to_chain] : undefined
TrackedToChain(to_chain) ==
    IF to_chain = "undefined" THEN "undefined"
    ELSE IF to_chain \in DOMAIN chainDisplayMap THEN chainDisplayMap[to_chain]
    ELSE IF to_chain \in ObjectPrototypeKeys THEN "[inherited]"
    ELSE "undefined"

\* what POST /execute answers (ExecutionResult; tx_hash is optional)
ExecutionResults == [status : {"success", "error"}, tx_hash : {"undefined", "0xb1"}]

LogEntry(step, outcome, hash) ==
    [step |-> step, outcome |-> outcome, hash |-> hash,
     card    |-> IF step = "confirm" THEN 0 ELSE kLog[Len(kLog)].card,
     quoteId |-> IF step = "confirm" THEN kQuoteId ELSE kLog[Len(kLog)].quoteId,
     quote   |-> IF step = "confirm" THEN kQuote ELSE kLog[Len(kLog)].quote,
     address |-> IF step = "confirm" THEN kAddress ELSE kLog[Len(kLog)].address]

\* the step awaited has settled with outcome
Settled(outcome) == [kLog EXCEPT ![Len(kLog)].outcome = outcome]

\* result.status === "error"
ExecuteFailed_Never(result) == FALSE

ExecuteFailed(result) == result.status = "error"

\* the run ends, by return or through the catch block: finally
EndRun(outcome) ==
    /\ kPc' = "idle"
    /\ isLoading' = FALSE
    /\ kLog' = Settled(outcome)
    /\ UNCHANGED <<kQuote, kQuoteId, kTrackingTx, kTxMessages>>

\* the approval transaction is sent to the wallet
SubmitApproval ==
    /\ kPc' = "approval"
    /\ kLog' = Append(Settled("ok"), LogEntry("approval", "pending", "undefined"))
    /\ UNCHANGED <<isLoading, kQuote, kQuoteId, kTrackingTx, kTxMessages>>

\* the page renders ChatInterface with another userAddress (useAccount)
AddressChanges ==
    /\ kAddress' = ~kAddress
    /\ UNCHANGED <<kPc, isLoading, kQuote, kQuoteId, kLog, kTrackingTx, kTxMessages, kConfirms>>
    /\ UNCHANGED <<kCards, coreVars, serviceVars, chainVars, flowVars, nexusVars>>

HandleSendMessage ==
    /\ ~isLoading
    /\ isLoading' = TRUE
    /\ kPc' = "quoting"
    /\ UNCHANGED <<kQuote, kQuoteId, kAddress, kLog, kTrackingTx, kTxMessages, kConfirms>>
    /\ UNCHANGED <<kCards, coreVars, serviceVars, chainVars, flowVars, nexusVars>>

\* parseIntent and getQuote have settled: with a quote, or without
SendMessageSettles(quoted, to_chain) ==
    /\ kPc = "quoting"
    /\ quoted => Len(kCards) < MaxCards
    /\ kPc' = "idle"
    /\ isLoading' = FALSE
    /\ kQuote' = (quoted \/ kQuote)
    /\ kQuoteId' = IF quoted THEN Len(kCards) + 1 ELSE kQuoteId
    /\ kCards' = IF quoted THEN Append(kCards, [to_chain |-> to_chain]) ELSE kCards
    /\ UNCHANGED <<kAddress, kLog, kTrackingTx, kTxMessages, kConfirms>>
    /\ UNCHANGED <<coreVars, serviceVars, chainVars, flowVars, nexusVars>>

HandleCancelTrade ==
    /\ ~isLoading
    /\ kQuote
    /\ kQuote' = FALSE
    /\ kQuoteId' = 0
    /\ UNCHANGED <<kPc, isLoading, kAddress, kLog, kTrackingTx, kTxMessages, kConfirms>>
    /\ UNCHANGED <<kCards, coreVars, serviceVars, chainVars, flowVars, nexusVars>>

\* Confirm is pressed on a card: handleConfirmTrade up to its first await
HandleConfirmTrade(card, ethereum) ==
    /\ ~isLoading
    /\ card \in 1..Len(kCards)
    /\ kConfirms < MaxConfirms
    /\ kConfirms' = kConfirms + 1
    /\ IF ~kQuote \/ ~kAddress
       THEN /\ kLog' = Append(kLog, [LogEntry("confirm", "refused", "undefined")
                                        EXCEPT !.card = card])
            /\ UNCHANGED <<kPc, isLoading>>
       ELSE IF ~ethereum
       THEN /\ kLog' = Append(kLog, [LogEntry("confirm", "failed", "undefined")
                                        EXCEPT !.card = card])
            /\ UNCHANGED <<kPc, isLoading>>
       ELSE /\ kLog' = Append(kLog, [LogEntry("confirm", "pending", "undefined")
                                        EXCEPT !.card = card])
            /\ kPc' = "eth_requestAccounts"
            /\ isLoading' = TRUE
    /\ UNCHANGED <<kQuote, kQuoteId, kAddress, kTrackingTx, kTxMessages>>
    /\ UNCHANGED <<kCards, coreVars, serviceVars, chainVars, flowVars, nexusVars>>

\* one of the wallet requests before the transactions has settled
WalletRequestSettles(answer) ==
    /\ \/ /\ kPc = "eth_requestAccounts"
          /\ answer \in {"rejects", "none", "ok"}
          /\ IF answer = "ok"
             THEN /\ kPc' = "eth_chainId"
                  /\ UNCHANGED <<isLoading, kQuote, kQuoteId, kLog, kTrackingTx, kTxMessages>>
             ELSE EndRun("failed")
       \/ /\ kPc = "eth_chainId"
          /\ answer \in {"rejects", "sepolia", "other"}
          /\ CASE answer = "sepolia" -> SubmitApproval
               [] answer = "other" ->
                    /\ kPc' = "wallet_switchEthereumChain"
                    /\ UNCHANGED <<isLoading, kQuote, kQuoteId, kLog, kTrackingTx, kTxMessages>>
               [] OTHER -> EndRun("failed")
       \/ /\ kPc = "wallet_switchEthereumChain"
          /\ answer \in {"rejects", "4902", "ok"}
          /\ CASE answer = "ok" -> SubmitApproval
               [] answer = "4902" ->
                    /\ kPc' = "wallet_addEthereumChain"
                    /\ UNCHANGED <<isLoading, kQuote, kQuoteId, kLog, kTrackingTx, kTxMessages>>
               [] OTHER -> EndRun("failed")
       \/ /\ kPc = "wallet_addEthereumChain"
          /\ answer \in {"rejects", "ok"}
          /\ IF answer = "ok" THEN SubmitApproval ELSE EndRun("failed")
    /\ UNCHANGED <<kAddress, kConfirms>>
    /\ UNCHANGED <<kCards, coreVars, serviceVars, chainVars, flowVars, nexusVars>>

\* the approval's eth_sendTransaction has settled: with a hash, with nothing,
\* or by rejecting
ApprovalSettles(answer) ==
    /\ kPc = "approval"
    /\ IF answer = "hash"
       THEN /\ kPc' = "wait"
            /\ kLog' = [Settled("ok") EXCEPT ![Len(kLog)].hash = "0xa1"]
            /\ UNCHANGED <<isLoading, kQuote, kQuoteId, kTrackingTx, kTxMessages>>
       ELSE EndRun("failed")
    /\ UNCHANGED <<kAddress, kConfirms>>
    /\ UNCHANGED <<kCards, coreVars, serviceVars, chainVars, flowVars, nexusVars>>

\* the 2 s timer ends: the bridge transaction is sent to the wallet
ApprovalWaitEnds ==
    /\ kPc = "wait"
    /\ kPc' = "bridge"
    /\ kLog' = Append(kLog, LogEntry("bridge", "pending", "undefined"))
    /\ UNCHANGED <<isLoading, kQuote, kQuoteId, kAddress, kTrackingTx, kTxMessages, kConfirms>>
    /\ UNCHANGED <<kCards, coreVars, serviceVars, chainVars, flowVars, nexusVars>>

\* the bridge's eth_sendTransaction has settled; with a hash, executeTrade is
\* posted
BridgeTxSettles(answer) ==
    /\ kPc = "bridge"
    /\ IF answer = "hash"
       THEN /\ kPc' = "executeTrade"
            /\ kLog' = Append([Settled("ok") EXCEPT ![Len(kLog)].hash = "0xb1"],
                              LogEntry("executeTrade", "pending", "undefined"))
            /\ UNCHANGED <<isLoading, kQuote, kQuoteId, kTrackingTx, kTxMessages>>
       ELSE EndRun("failed")
    /\ UNCHANGED <<kAddress, kConfirms>>
    /\ UNCHANGED <<kCards, coreVars, serviceVars, chainVars, flowVars, nexusVars>>

\* executeTrade rejects
ExecuteTradeRejects ==
    /\ kPc = "executeTrade"
    /\ EndRun("failed")
    /\ UNCHANGED <<kAddress, kConfirms>>
    /\ UNCHANGED <<kCards, coreVars, serviceVars, chainVars, flowVars, nexusVars>>

\* executeTrade resolves with result
ExecuteTradeResolves(result) ==
    /\ kPc = "executeTrade"
    /\ IF ExecuteFailed(result)
       THEN /\ kPc' = "idle"
            /\ isLoading' = FALSE
            /\ kLog' = [Settled("failed") EXCEPT ![Len(kLog)].hash = result.tx_hash]
            /\ UNCHANGED <<kQuote, kQuoteId, kTrackingTx, kTxMessages>>
       ELSE /\ kPc' = "idle"
            /\ isLoading' = FALSE
            /\ kQuote' = FALSE
            /\ kQuoteId' = 0
            /\ kTxMessages' = IF result.tx_hash # "undefined"
                              THEN kTxMessages \cup {result.tx_hash}
                              ELSE kTxMessages
            /\ kTrackingTx' =
                  [hash |-> result.tx_hash,
                   toChain |-> TrackedToChain(kCards[kLog[Len(kLog)].quoteId].to_chain)]
            /\ kLog' = Append([Settled(result.status) EXCEPT
                                  ![Len(kLog)].hash = result.tx_hash],
                              LogEntry("setTrackingTx", "ok", result.tx_hash))
    /\ UNCHANGED <<kAddress, kConfirms>>
    /\ UNCHANGED <<kCards, coreVars, serviceVars, chainVars, flowVars, nexusVars>>

\* the hashes for which a TransactionStatus is rendered: message.txHash && trackingTx
TrackedHashes == IF kTrackingTx # NoTrackingTx THEN kTxMessages ELSE {}

ChatInit ==
    /\ kPc = "idle"
    /\ isLoading = FALSE
    /\ kQuote = FALSE
    /\ kQuoteId = 0
    /\ kCards = <<>>
    /\ kLog = <<>>
    /\ kTrackingTx = NoTrackingTx
    /\ kTxMessages = {}
    /\ kConfirms = 0

ChatNext ==
    \/ AddressChanges
    \/ HandleSendMessage
    \/ \E quoted \in BOOLEAN, to_chain \in QuoteToChains :
          SendMessageSettles(quoted, to_chain)
    \/ HandleCancelTrade
    \/ \E card \in 1..MaxCards, ethereum \in BOOLEAN :
          HandleConfirmTrade(card, ethereum)
    \/ \E answer \in {"rejects", "none", "ok", "sepolia", "other", "4902"} :
          WalletRequestSettles(answer)
    \/ \E answer \in {"hash", "none", "rejects"} : ApprovalSettles(answer)
    \/ ApprovalWaitEnds
    \/ \E answer \in {"hash", "none", "rejects"} : BridgeTxSettles(answer)
    \/ ExecuteTradeRejects
    \/ \E result \in ExecutionResults : ExecuteTradeResolves(result)

(***************************************************************************)
(* AvailNexusClient.executeBridge and getBridgeStatus, called with the     *)
(* chains, token and amount of qReq (and a quoteId, a recipient and signed *)
(* data that are set).  Building the request reads                         *)
(* SUPPORTED_CHAINS[chain.toLowerCase()].id: of a key that the object does *)
(* not have, own or inherited, the read throws a TypeError; of an          *)
(* inherited one it gives undefined.                                       *)
(***************************************************************************)
ExecuteResponses == [txHash : {"0xb1"}, outputAmount : {0, 900}]

StatusResponses == [overallStatus : {"", "completed"}, progress : {0, 100}]

\* the first chain whose `.id` cannot be read, fromChainId being read first
IdReadError(fromChain, toChain) ==
    IF ~isChainSupported(fromChain)
    THEN [kind |-> "TypeError", name |-> fromChain]
    ELSE IF ~isChainSupported(toChain)
    THEN [kind |-> "TypeError", name |-> toChain]
    ELSE NoError

\* what executeBridge throws before its request: !quoteId || !fromChain ||
\* !toChain || !token || !amount || !recipientAddress, then the reads of `.id`
ValidateExecute(fromChain, toChain, token, amount) ==
    IF amount = 0
    THEN [kind |-> "missing_parameters", name |-> ""]
    ELSE IdReadError(fromChain, toChain)

\* executeBridge up to its await
ExecuteBridge ==
    /\ qPc = "ready"
    /\ LET err == ValidateExecute(qReq.fromChain, qReq.toChain, qReq.token, qReq.amount)
       IN IF err # NoError
          THEN /\ qPc' = "thrown"
               /\ qError' = err
               /\ qSent' = NoRequest
          ELSE /\ qPc' = "executing"
               /\ qError' = NoError
               /\ qSent' = QuoteRequestBody(qReq.fromChain, qReq.toChain,
                                            qReq.token, qReq.amount)
    /\ UNCHANGED <<qReq, qQuote>>
    /\ UNCHANGED <<routeVars, trackVars, pollVars, serviceVars, uiVars>>

\* POST /bridge/execute resolves: the BridgeTransaction is returned
ExecuteApiRespond(data) ==
    /\ qPc = "executing"
    /\ qPc' = "returned"
    /\ qQuote' = [status |-> "success", txHash |-> data.txHash,
                  fromChain |-> qReq.fromChain, toChain |-> qReq.toChain,
                  token |-> toUpperCase(qReq.token), amount |-> qReq.amount,
                  outputAmount |-> IF data.outputAmount # 0 THEN data.outputAmount
                                   ELSE qReq.amount * 995]
    /\ UNCHANGED <<qReq, qError, qSent>>
    /\ UNCHANGED <<routeVars, trackVars, pollVars, serviceVars, uiVars>>

\* getBridgeStatus up to its await
GetBridgeStatus ==
    /\ qPc = "ready"
    /\ LET err == IdReadError(qReq.fromChain, qReq.toChain)
       IN IF err # NoError
          THEN /\ qPc' = "thrown"
               /\ qError' = err
               /\ qSent' = NoRequest
          ELSE /\ qPc' = "checking"
               /\ qError' = NoError
               /\ qSent' = [sent |-> TRUE,
                            fromChainId |-> ChainIdOf(qReq.fromChain),
                            toChainId |-> ChainIdOf(qReq.toChain)]
    /\ UNCHANGED <<qReq, qQuote>>
    /\ UNCHANGED <<routeVars, trackVars, pollVars, serviceVars, uiVars>>

\* GET /bridge/status resolves: the BridgeStatus is returned
StatusApiRespond(data) ==
    /\ qPc = "checking"
    /\ qPc' = "returned"
    /\ qQuote' = [sourceChain |-> qReq.fromChain, destChain |-> qReq.toChain,
                  overallStatus |-> IF data.overallStatus # "" THEN data.overallStatus
                                    ELSE "bridging",
                  progress |-> IF data.progress # 0 THEN data.progress ELSE 50]
    /\ UNCHANGED <<qReq, qError, qSent>>
    /\ UNCHANGED <<routeVars, trackVars, pollVars, serviceVars, uiVars>>

\* the request of either call rejects: the error is rethrown
BridgeApiFail ==
    /\ qPc \in {"executing", "checking"}
    /\ qPc' = "thrown"
    /\ qError' = [kind |-> "api_error", name |-> ""]
    /\ UNCHANGED <<qReq, qQuote, qSent>>
    /\ UNCHANGED <<routeVars, trackVars, pollVars, serviceVars, uiVars>>

BridgeCallNext ==
    \/ ExecuteBridge
    \/ \E data \in ExecuteResponses : ExecuteApiRespond(data)
    \/ GetBridgeStatus
    \/ \E data \in StatusResponses : StatusApiRespond(data)
    \/ BridgeApiFail

(***************************************************************************)
(* AvailNexusBridge: the one instance that getAvailNexusBridge hands out.  *)
(* initialize runs up to `await sdk.initialize(provider)` in one step and  *)
(* its continuation in another; several calls can be in flight.  The SDK   *)
(* instances are numbered in the order of their construction; sdk = 0 is   *)
(* null.  The other methods change no field of the bridge, so a call of    *)
(* one of them with the SDK's answer is one step.                          *)
(***************************************************************************)
MaxInitCalls == 3   \* calls of initialize

NoCall == [method |-> "none", outcome |-> "none", sdkCalled |-> FALSE,
           before |-> <<FALSE, 0>>, after |-> <<FALSE, 0>>]

BridgeMethods == {"getUnifiedBalances", "bridge", "onProgressStep", "onExpectedSteps"}

\* `if (this.initialized) return;`
AlreadyInitialized == aInitialized

\* this.sdk after the continuation of initialize
SdkAfter_Always(ok, sdk) == sdk

SdkAfter(ok, sdk) == IF ok THEN sdk ELSE aSdk

\* initialize up to its await; `constructs` is false when new NexusSDK or the
\* setting of a hook throws
Initialize(constructs) ==
    /\ aInits < MaxInitCalls
    /\ aInits' = aInits + 1
    /\ IF AlreadyInitialized
       THEN /\ aLast' = [method |-> "initialize", outcome |-> "nothing",
                         sdkCalled |-> FALSE, before |-> <<aInitialized, aSdk>>,
                         after |-> <<aInitialized, aSdk>>]
            /\ UNCHANGED <<aPending, aSdkInits>>
       ELSE IF constructs
       THEN /\ aSdkInits' = aSdkInits + 1
            /\ aPending' = aPending \cup {aSdkInits + 1}
            /\ UNCHANGED aLast
       ELSE /\ aLast' = [method |-> "initialize", outcome |-> "rethrown",
                         sdkCalled |-> FALSE, before |-> <<aInitialized, aSdk>>,
                         after |-> <<aInitialized, aSdk>>]
            /\ UNCHANGED <<aPending, aSdkInits>>
    /\ UNCHANGED <<aInitialized, aSdk>>
    /\ UNCHANGED <<coreVars, serviceVars, chainVars, flowVars, chatVars>>

\* sdk.initialize(provider) of the call that constructed `sdk` settles
InitializeSettles(sdk, ok) ==
    /\ sdk \in aPending
    /\ aPending' = aPending \ {sdk}
    /\ aSdk' = SdkAfter(ok, sdk)
    /\ aInitialized' = (ok \/ aInitialized)
    /\ aLast' = [method |-> "initialize",
                 outcome |-> IF ok THEN "initialized" ELSE "rethrown",
                 sdkCalled |-> TRUE, before |-> <<aInitialized, aSdk>>,
                 after |-> <<aInitialized', aSdk'>>]
    /\ UNCHANGED <<aInits, aSdkInits>>
    /\ UNCHANGED <<coreVars, serviceVars, chainVars, flowVars, chatVars>>

\* getUnifiedBalances, bridge, onProgressStep or onExpectedSteps; sdkThrows
\* says whether the SDK's method throws or rejects
CallBridgeMethod(method, sdkThrows) ==
    /\ aLast' = [method |-> method,
                 outcome |-> IF aSdk = 0 THEN "SDK not initialized"
                             ELSE IF sdkThrows /\ method = "getUnifiedBalances"
                             THEN "rethrown"
                             ELSE "returned",
                 sdkCalled |-> aSdk # 0, before |-> <<aInitialized, aSdk>>,
                 after |-> <<aInitialized, aSdk>>]
    /\ UNCHANGED <<aInitialized, aSdk, aPending, aSdkInits, aInits>>
    /\ UNCHANGED <<coreVars, serviceVars, chainVars, flowVars, chatVars>>

NexusInit ==
    /\ aInitialized = FALSE
    /\ aSdk = 0
    /\ aPending = {}
    /\ aSdkInits = 0
    /\ aInits = 0
    /\ aLast = NoCall

NexusNext ==
    \/ \E constructs \in BOOLEAN : Initialize(constructs)
    \/ \E sdk \in 1..MaxInitCalls, ok \in BOOLEAN : InitializeSettles(sdk, ok)
    \/ \E method \in BridgeMethods, sdkThrows \in BOOLEAN :
          CallBridgeMethod(method, sdkThrows)

(***************************************************************************)
(* Specifications                                                          *)
(***************************************************************************)
\* a component that a specification does not run stays in its initial state
QuoteIdle ==
    QuoteInit /\ qReq = [fromChain |-> "sepolia", toChain |-> "polygon-amoy",
                         token |-> "USDC", amount |-> 100]

RouteIdle ==
    RouteInit /\ rReq = [fromChain |-> "sepolia", toChain |-> "polygon-amoy",
                         fromToken |-> "USDC", toToken |-> "USDC", amount |-> 100]

\* the components outside the quote and tracking logic, idle
ServiceIdle ==
    PriceIdle /\ CacheInit /\ MultiInit /\ mSymbols = <<>> /\ BalanceIdle

UiIdle == ChainIdle /\ FlowInit /\ ChatInit /\ kAddress = TRUE /\ NexusInit

InitQuote ==
    /\ QuoteInit /\ qReq \in QuoteRequests /\ RouteIdle /\ TrackerInit /\ PollInit
    /\ ServiceIdle /\ UiIdle

SpecQuote == InitQuote /\ [][QuoteNext]_vars

InitRoute ==
    /\ RouteInit /\ rReq \in RouteRequests /\ QuoteIdle /\ TrackerInit /\ PollInit
    /\ ServiceIdle /\ UiIdle

SpecRoute == InitRoute /\ [][RouteNext]_vars

CoreIdle == QuoteIdle /\ RouteIdle /\ TrackerInit /\ PollInit

InitTracking == CoreIdle /\ ServiceIdle /\ UiIdle

SpecTracker == InitTracking /\ [][TrackerNext]_vars

SpecPoll == InitTracking /\ [][PollNext]_vars

\* the two polling loops; a behaviour runs one of them, the other staying
\* in its initial state
PollingNext ==
    \/ PollInit /\ TrackerNext
    \/ TrackerInit /\ PollNext

SpecPolling == InitTracking /\ [][PollingNext]_vars

InitPrice ==
    /\ PriceInit /\ fSymbol \in PriceSymbols /\ sArgs \in SwapRequests
    /\ CacheInit /\ MultiInit /\ mSymbols = <<>> /\ BalanceIdle
    /\ CoreIdle /\ UiIdle

SpecPrice == InitPrice /\ [][PriceNext]_vars

InitChain ==
    /\ ChainInit /\ nChain \in ChainArgs /\ eChainId \in ChainIdInputs
    /\ uChain \in ChainInputs
    /\ FlowInit /\ ChatInit /\ kAddress = TRUE /\ NexusInit
    /\ CoreIdle /\ ServiceIdle

SpecChain == InitChain /\ [][ChainNext]_vars

SpecCache == InitTracking /\ [][CacheNext]_vars

InitMulti ==
    /\ MultiInit
    /\ mSymbols \in UNION {[1..n -> MultiSymbols] : n \in 0..MaxSymbols}
    /\ PriceIdle /\ CacheInit /\ BalanceIdle
    /\ CoreIdle /\ UiIdle

SpecMulti == InitMulti /\ [][MultiNext]_vars

InitBalance ==
    /\ BalanceInit
    /\ bFn \in BalanceFunctions
    /\ bBehaviours \in [1..Providers(bFn) -> ProviderBehaviours]
    /\ PriceIdle /\ CacheInit /\ MultiInit /\ mSymbols = <<>>
    /\ CoreIdle /\ UiIdle

SpecBalance == InitBalance /\ [][BalanceNext]_vars

\* the event loop runs every continuation and timer callback that is due,
\* and a provider that answers does so in the end
SpecBalanceFair == SpecBalance /\ WF_vars(BalanceNext)

SpecFlow == InitTracking /\ [][FlowNext]_vars

InitChat ==
    /\ ChatInit /\ kAddress \in BOOLEAN
    /\ ChainIdle /\ FlowInit /\ NexusInit
    /\ CoreIdle /\ ServiceIdle

SpecChat == InitChat /\ [][ChatNext]_vars

SpecBridgeCall == InitQuote /\ [][BridgeCallNext]_vars

SpecNexus == InitTracking /\ [][NexusNext]_vars

(***************************************************************************)
(* Properties of getBridgeQuote                                            *)
(***************************************************************************)
\* the Errors the validation of getBridgeQuote throws
InvalidRequestKinds ==
    {"chain_not_supported", "token_not_supported", "amount_not_positive"}

\* C1: a call of getBridgeQuote with amount <= 0 ends by throwing one of the
\* validation errors; it returns no quote and posts nothing to /quotes.
C1_NonPositiveAmountRejected ==
    (qPc # "ready" /\ qReq.amount <= 0) =>
        /\ qPc = "thrown"
        /\ qError.kind \in InvalidRequestKinds
        /\ qQuote = NoQuote
        /\ qSent = NoRequest

\* a call with supported chains and token and amount 0 was rejected by the
\* amount check
C1_Witness ==
    /\ qPc = "thrown"
    /\ qReq.amount = 0
    /\ qError.kind = "amount_not_positive"
    /\ qSent = NoRequest

\* a chain (token) name that is no key of SUPPORTED_CHAINS (SUPPORTED_TOKENS)
ChainAbsent(chain) == toLowerCase(chain) \notin DOMAIN SUPPORTED_CHAINS

TokenAbsent(token) == toUpperCase(token) \notin DOMAIN SUPPORTED_TOKENS

\* C2: a call of getBridgeQuote naming a chain or token that is absent from
\* SUPPORTED_CHAINS / SUPPORTED_TOKENS throws the validation error naming an
\* absent chain or token, and posts nothing to /quotes.
C2_UnsupportedRejected ==
    (/\ qPc # "ready"
     /\ \/ ChainAbsent(qReq.fromChain)
        \/ ChainAbsent(qReq.toChain)
        \/ TokenAbsent(qReq.token)) =>
        /\ qPc = "thrown"
        /\ qSent = NoRequest
        /\ \/ /\ qError.kind = "chain_not_supported"
              /\ qError.name \in {qReq.fromChain, qReq.toChain}
              /\ ChainAbsent(qError.name)
           \/ /\ qError.kind = "token_not_supported"
              /\ qError.name = qReq.token
              /\ TokenAbsent(qError.name)

\* the request passed the validation by own keys and names two different chains
CrossChainRequest(req) ==
    /\ ~ChainAbsent(req.fromChain)
    /\ ~ChainAbsent(req.toChain)
    /\ toLowerCase(req.fromChain) # toLowerCase(req.toChain)

\* C11: the quote returned for a transfer of one token between two different
\* chains reports exchangeRate 1.0: the fee is taken from outputAmount only.
C11_ExchangeRateBeforeFee ==
    (qPc = "returned" /\ CrossChainRequest(qReq)) =>
        qQuote.exchangeRate[1] = qQuote.exchangeRate[2]

\* outputAmount / amount and exchangeRate of a quote, in millionths
OutputPerInputPpm(quote) == (quote.outputAmount * 1000) \div quote.amount

ExchangeRatePpm(quote) ==
    (quote.exchangeRate[1] * 1000) \div (quote.exchangeRate[2] \div 1000)

\* outputAmount / amount - exchangeRate * (1 - bridgeFeePercent / 100), in
\* units of 10^-10
RoundTripDeviation(quote) ==
    (OutputPerInputPpm(quote) - ExchangeRatePpm(quote)) * 10000
        + ExchangeRatePpm(quote) * quote.bridgeFeePercent

\* C12: in every quote returned, outputAmount / amount differs from
\* exchangeRate * (1 - bridgeFeePercent / 100) by at most 10^-6.
C12_RoundTrip ==
    qPc = "returned" =>
        /\ RoundTripDeviation(qQuote) <= 10000
        /\ RoundTripDeviation(qQuote) >= -10000

(***************************************************************************)
(* Properties of getRouteRecommendation                                    *)
(***************************************************************************)
\* C9: for a request between two different chains the route is direct_bridge
\* when the tokens are equal and bridge_then_swap when they differ.
C9_CrossChainRoute ==
    (rRec # NoRec /\ rReq.fromChain # rReq.toChain) =>
        rRec.route = IF rReq.fromToken = rReq.toToken THEN "direct_bridge"
                     ELSE "bridge_then_swap"

\* a cross-chain request with different tokens was classified
C9_Witness ==
    /\ rRec # NoRec
    /\ rReq.fromChain # rReq.toChain
    /\ rReq.fromToken # rReq.toToken
    /\ rRec.route = "bridge_then_swap"

\* C10: for a request on one chain with two different tokens the route is
\* same_chain_swap.
C10_SameChainSwap ==
    (rRec # NoRec /\ rReq.fromChain = rReq.toChain
                  /\ rReq.fromToken # rReq.toToken) =>
        rRec.route = "same_chain_swap"

(***************************************************************************)
(* Properties of the TransactionStatus component                           *)
(***************************************************************************)
\* C3: from one non-terminal status shown to the next, a poll response never
\* lowers the progress shown.
C3_ProgressMonotonic ==
    [][(/\ tStatus # NoStatus
        /\ ~TerminalResult(tStatus)
        /\ ~TerminalResult(tStatus')) =>
          progress(tStatus') >= progress(tStatus)]_vars

\* C4: once a status of success or failed is recorded, the recorded status
\* (and with it the progress) no longer changes.
C4_TerminalFixed ==
    [][(tStatus # NoStatus /\ tStatus.status \in {"success", "failed"}) =>
          tStatus' = tStatus]_vars

\* C5: a status carrying both progress 100 and a failed status is shown as
\* failed.
C5_FailureWins ==
    (tStatus # NoStatus /\ progress(tStatus) = 100 /\ isFailed(tStatus)) =>
        Heading(tStatus) = "Transaction Failed"

(***************************************************************************)
(* Properties of pollBridgeStatus                                          *)
(***************************************************************************)
\* the callbacks invoked in a run, in order
Callbacks(log) ==
    SelectSeq(log, LAMBDA e : e \in {"onUpdate", "onComplete", "onError"})

\* C6: after the cleanup function has been called no status query is issued
\* and no callback is invoked.
C6_CancelStops ==
    [][pCancelled =>
          /\ pQueries' = pQueries
          /\ Callbacks(pLog') = Callbacks(pLog)]_vars

\* the last status query of the run failed
LastQueryFailed ==
    \E i \in DOMAIN pLog :
        /\ pLog[i] = "queryFailed"
        /\ \A j \in DOMAIN pLog : j > i => pLog[j] # "query"

\* C7: after a failed status query of a run that was not cancelled, the next
\* query is scheduled.
C7_FailureAbsorbed ==
    (LastQueryFailed /\ ~pCancelled) => pPc = "timer"

\* a status query of the run has returned a terminal status
PollTerminalReturned ==
    \E i \in DOMAIN pLog : pLog[i] \in {"complete", "failed"}

PriceUnavailable(result) ==
    result.kind = "thrown" /\ result.name = "PriceUnavailable"

\* C13: fetchPrice of a symbol that has no price, and calculateSwapOutput with
\* a price that is zero or negative, end with the price-unavailable error and
\* deliver no amount.
C13_PriceUnavailable ==
    /\ (fPrice # NoResult /\ fSymbol \notin DOMAIN MOCK_PRICES) =>
           PriceUnavailable(fPrice)
    /\ (sOut # NoResult /\ (sArgs.fromPrice <= 0 \/ sArgs.toPrice <= 0)) =>
           PriceUnavailable(sOut)

Requested == {mSymbols[i] : i \in DOMAIN mSymbols}

\* C17: fetchMultiplePrices returns only when every lookup has settled, and
\* the map it returns has exactly the requested symbols as keys, each with
\* the price fetchPrice gives for it, whatever the order the lookups settled in.
C17_JoinAll ==
    mPc = "returned" =>
        /\ mPending = {}
        /\ mReturned.kind = "returned"
        /\ DOMAIN mReturned.value = Requested
        /\ \A symbol \in Requested : mReturned.value[symbol] = fetchPrice(symbol)

\* a call for three symbols, one of them twice and one without a price, has
\* returned
C17_Witness ==
    /\ mPc = "returned"
    /\ mSymbols = <<"USDC", "DOGE", "USDC">>
    /\ mReturned.value["USDC"] = 1000
    /\ mReturned.value["DOGE"] = 0

C16_EventuallyReturns == <>(bPc = "returned")

(***************************************************************************)
(* Properties of the chain resolution                                      *)
(***************************************************************************)
\* the values of a table
RangeOf(table) == {table[k] : k \in DOMAIN table}

\* the call returned an entry of the table
ReturnedEntryOf(result, table) ==
    result.kind = "returned" /\ result.value \in RangeOf(table)

\* C18: a chain that is absent from the table resolves to no chain of the
\* table (the resolution ends with NotFound): normalizeChainId of a name that
\* is no key of chainMap does not return an id of chainMap,
\* getBlockscoutExplorerUrl of an id that is no key of explorerUrls does not
\* return a URL of explorerUrls, and getBlockscoutUrl of a name that is no key
\* of explorers does not return a URL of explorers.
C18_UnknownChainNotFound ==
    /\ (/\ nId # NoResult
        /\ nChain.type = "string"
        /\ toLowerCase(nChain.value) \notin DOMAIN chainMap) =>
           ~ReturnedEntryOf(nId, chainMap)
    /\ (eBase # NoResult /\ eChainId \notin DOMAIN explorerUrls) =>
           ~ReturnedEntryOf(eBase, explorerUrls)
    /\ (uBase # NoResult /\ toLowerCase(uChain) \notin DOMAIN explorers) =>
           ~ReturnedEntryOf(uBase, explorers)

(***************************************************************************)
(* Properties of the NexusFlowExample component                            *)
(***************************************************************************)
\* C19: progress is 100 only with status complete, and with status executing
\* it is at most 90.
C19_ProgressComplete ==
    /\ fProgress = 100 => fStatus = "complete"
    /\ fStatus = "executing" => fProgress <= 90

(***************************************************************************)
(* Properties of ChatInterface.handleConfirmTrade                          *)
(***************************************************************************)
StepBefore(i) == kLog[i - 1]

\* the steps that have to come directly before a step, and to have succeeded
Previous(step) ==
    CASE step = "approval"      -> "confirm"
      [] step = "bridge"        -> "approval"
      [] step = "executeTrade"  -> "bridge"
      [] step = "setTrackingTx" -> "executeTrade"

C21_NotifiedAtMostOnce == tToasts <= 1

(***************************************************************************)
(* Properties of executeBridge and getBridgeStatus                         *)
(***************************************************************************)
\* C22: executeBridge and getBridgeStatus, called with a fromChain or toChain
\* that is not a key of SUPPORTED_CHAINS, throw the chain-not-supported error
\* for that chain, as getBridgeQuote does, and send no request.
C22_UnsupportedChainInvalid ==
    (/\ qPc # "ready"
     /\ \/ toLowerCase(qReq.fromChain) \notin DOMAIN SUPPORTED_CHAINS
        \/ toLowerCase(qReq.toChain) \notin DOMAIN SUPPORTED_CHAINS) =>
        /\ qSent = NoRequest
        /\ qError.kind = "chain_not_supported"
        /\ qError.name \in {qReq.fromChain, qReq.toChain}
        /\ toLowerCase(qError.name) \notin DOMAIN SUPPORTED_CHAINS

\* C23: whenever status is 'error' and neither a quote request nor a bridge
\* execution is in flight, the quote is set, so that the visualizer and its
\* close control, which resets status to 'idle', are rendered.
C23_ErrorHasWayBack ==
    (fStatus = "error" /\ fQuotesInFlight = 0 /\ fBridgesInFlight = 0) => fQuote

\* C24: when no execution of handleExecuteBridge is running, none of the
\* progress listeners it subscribed is still subscribed.
C24_ListenersUnsubscribed == fBridgesInFlight = 0 => fListeners = 0

(***************************************************************************)
(* Properties of AvailNexusBridge                                          *)
(***************************************************************************)
\* C25: however the calls of initialize interleave, at most one NexusSDK
\* instance is constructed and initialised with the provider.
C25_OneSdkInstance == aSdkInits <= 1

\* the fields of the bridge as a call found and left them
Unset == <<FALSE, 0>>

C26_ConfirmExecutesCardQuote ==
    \A i \in 1..Len(kLog) :
        kLog[i].step \in {"approval", "bridge", "executeTrade"} =>
            kLog[i].quoteId = kLog[i].card

\* the quote for which setTrackingTx was last called
TrackedQuote ==
    LET last == CHOOSE i \in 1..Len(kLog) :
                   /\ kLog[i].step = "setTrackingTx"
                   /\ \A j \in (i + 1)..Len(kLog) : kLog[j].step # "setTrackingTx"
    IN kCards[kLog[last].quoteId]

\* C28: when the executed quote has a to_chain, the tracking is started with
\* that destination chain.
C28_TrackedDestination ==
    (kTrackingTx # NoTrackingTx /\ TrackedQuote.to_chain # "undefined") =>
        kTrackingTx.toChain = TrackedQuote.to_chain

\* C27: at most one call of bridge.bridge is in flight at any time.
C27_OneBridgeInFlight == fBridgesInFlight <= 1

\* the invocations of onComplete and onError among the callbacks of a run
TerminalCallbacks(log) ==
    SelectSeq(log, LAMBDA e : e \in {"onComplete", "onError"})

\* C30: in a run of pollBridgeStatus at most one of onComplete and onError is
\* invoked, at most once, and no callback is invoked after it.
C30_OneTerminalCallback ==
    /\ Len(TerminalCallbacks(pLog)) <= 1
    /\ \A i \in 1..Len(Callbacks(pLog)) :
          Callbacks(pLog)[i] \in {"onComplete", "onError"} =>
              i = Len(Callbacks(pLog))

====
